---- MODULE Spec2Model ----
(***************************************************************************)
(* Model of the tool-dispatch engine of cyh-steg-cli: the tool registry    *)
(* (GetAllTools), the dispatch filter (filterTools) and the concurrent     *)
(* executor (RunAll) with one goroutine per applicable tool, a per-task    *)
(* deadline context and a WaitGroup join barrier.                          *)
(*                                                                         *)
(* Strings that the code inspects byte by byte (captured output) are       *)
(* sequences of one-character strings.  Durations are whole seconds.       *)
(* The run time of a subprocess is an input of the environment, so the     *)
(* expiry of a deadline is an event that may fall anywhere after the       *)
(* context was created (and falls at creation for a negative timeout).     *)
(***************************************************************************)
EXTENDS Integers, Sequences, FiniteSets, TLC

\* ------------------------------------------------------------------ bounds
\* longest --only list drawn as input
MaxOnly == 2
\* longest captured output (bytes) drawn as input
MaxOut == 1
\* longest file content (bytes) drawn as input
MaxContent == 12
\* longest file path (characters) drawn as input
MaxPath == 3

\* ------------------------------------------------------- program constants
\* runner.go:45, default per-tool timeout in seconds
DefaultTimeout == 60
\* root.go:131, default of the --timeout flag in seconds
DefaultFlagTimeout == 60
\* root.go:79, the Timeout the scan command first puts in RunOpts, in seconds
ScanTimeout == 60
\* detector.go:103, the header length from which signatures are examined
MinSignatureLen == 8
\* detector.go:127, the header length from which a RIFF form type is examined
MinRiffLen == 12
\* detector.go:79, the number of leading bytes Detect reads
HeaderSize == 512

\* --------------------------------------------------------------- detector
CategoryPNG == "png"
CategoryJPG == "jpg"
CategoryBMP == "bmp"
CategoryGIF == "gif"
CategoryTIFF == "tiff"
CategoryWEBP == "webp"
CategoryWAV == "wav"
CategoryMP3 == "mp3"
CategoryFLAC == "flac"
CategoryOGG == "ogg"
CategoryAU == "au"
CategoryUnknown == "unknown"

\* FileInfo.IsImage
IsImage(info) ==
    info.Category \in {CategoryPNG, CategoryJPG, CategoryBMP, CategoryGIF,
                       CategoryTIFF, CategoryWEBP}

\* FileInfo.IsAudio
IsAudio(info) ==
    info.Category \in {CategoryWAV, CategoryMP3, CategoryFLAC, CategoryOGG,
                       CategoryAU}

\* Signatures, as byte values.
\* 89 50 4E 47
SigPNG == <<137, 80, 78, 71>>
\* FF D8 FF
SigJPEG == <<255, 216, 255>>
\* 42 4D
SigBMP == <<66, 77>>
\* 47 49 46 38
SigGIF == <<71, 73, 70, 56>>
\* 49 49 2A 00
SigTIFFLittle == <<73, 73, 42, 0>>
\* 4D 4D 00 2A
SigTIFFBig == <<77, 77, 0, 42>>
\* 52 49 46 46
SigRIFF == <<82, 73, 70, 70>>
\* 57 41 56 45
FormWAVE == <<87, 65, 86, 69>>
\* 57 45 42 50
FormWEBP == <<87, 69, 66, 80>>
\* 66 4C 61 43
SigFLAC == <<102, 76, 97, 67>>
\* 4F 67 67 53
SigOGG == <<79, 103, 103, 83>>
\* 49 44 33
SigID3 == <<73, 68, 51>>
\* 2E 73 6E 64
SigAU == <<46, 115, 110, 100>>
\* 0xFF, the first byte of an MPEG frame sync
FrameSync == 255
\* 0xE0, the bits of the second byte of an MPEG frame sync
SyncMask == 224
\* offset of the RIFF form type
FormOffset == 8

\* header[offset], header[offset+1], ... are the given bytes; the caller has
\* checked the length, as the code does before it indexes
HasBytes(header, offset, bytes) ==
    \A k \in 1..Len(bytes) : header[offset + k] = bytes[k]

\* (b & 0xE0) == 0xE0 on a byte: its three high bits are set
HasSyncBits(b) == b >= SyncMask

\* the extension switch of detectCategory
CategoryOfExt(ext) ==
    CASE ext = ".png" -> CategoryPNG
      [] ext \in {".jpg", ".jpeg", ".jfif", ".jpe"} -> CategoryJPG
      [] ext = ".bmp" -> CategoryBMP
      [] ext = ".gif" -> CategoryGIF
      [] ext \in {".tiff", ".tif"} -> CategoryTIFF
      [] ext = ".webp" -> CategoryWEBP
      [] ext = ".wav" -> CategoryWAV
      [] ext = ".mp3" -> CategoryMP3
      [] ext = ".flac" -> CategoryFLAC
      [] ext = ".ogg" -> CategoryOGG
      [] ext = ".au" -> CategoryAU
      [] OTHER -> CategoryUnknown

\* detectCategory; its mime argument is never read and is left out
detectCategory(ext, header) ==
    IF Len(header) < MinSignatureLen THEN CategoryOfExt(ext)
    ELSE IF HasBytes(header, 0, SigPNG) THEN CategoryPNG
    ELSE IF HasBytes(header, 0, SigJPEG) THEN CategoryJPG
    ELSE IF HasBytes(header, 0, SigBMP) THEN CategoryBMP
    ELSE IF HasBytes(header, 0, SigGIF) THEN CategoryGIF
    ELSE IF HasBytes(header, 0, SigTIFFLittle) \/ HasBytes(header, 0, SigTIFFBig)
         THEN CategoryTIFF
    ELSE IF /\ HasBytes(header, 0, SigRIFF)
            /\ Len(header) >= MinRiffLen
            /\ HasBytes(header, FormOffset, FormWAVE)
         THEN CategoryWAV
    ELSE IF /\ HasBytes(header, 0, SigRIFF)
            /\ Len(header) >= MinRiffLen
            /\ HasBytes(header, FormOffset, FormWEBP)
         THEN CategoryWEBP
    ELSE IF HasBytes(header, 0, SigFLAC) THEN CategoryFLAC
    ELSE IF HasBytes(header, 0, SigOGG) THEN CategoryOGG
    ELSE IF \/ header[1] = FrameSync /\ HasSyncBits(header[2])
            \/ HasBytes(header, 0, SigID3)
         THEN CategoryMP3
    ELSE IF HasBytes(header, 0, SigAU) THEN CategoryAU
    ELSE CategoryOfExt(ext)

\* --------------------------------------------------------------- registry
allImageTypes ==
    {CategoryPNG, CategoryJPG, CategoryBMP, CategoryGIF, CategoryTIFF, CategoryWEBP}

allAudioTypes ==
    {CategoryWAV, CategoryMP3, CategoryFLAC, CategoryOGG, CategoryAU}

allTypes == allImageTypes \cup allAudioTypes

\* One descriptor.  Prog is the program exec.Command names in BuildCmd,
\* Builder the shape of BuildCmd: "plain" only builds the command,
\* "removeAll"/"removeAllMkdir"/"mkdir" touch Dir under the output directory
\* first, "rockyou" needs the wordlist and may download it.
Tool(name, binary, category, types, prog, builder, dir) ==
    [Name |-> name, Binary |-> binary, Category |-> category,
     SupportedTypes |-> types, Prog |-> prog, Builder |-> builder, Dir |-> dir]

GetAllTools ==
    << Tool("file", "file", "general", allTypes, "file", "plain", ""),
       Tool("exiftool", "exiftool", "general", allTypes, "exiftool", "plain", ""),
       Tool("binwalk", "binwalk", "general", allTypes, "binwalk", "plain", ""),
       Tool("strings", "strings", "general", allTypes, "strings", "plain", ""),
       Tool("hexdump", "xxd", "general", allTypes, "bash", "plain", ""),
       Tool("foremost", "foremost", "general", allTypes, "foremost", "removeAll", "foremost"),
       Tool("zsteg", "zsteg", "image", {CategoryPNG, CategoryBMP}, "zsteg", "plain", ""),
       Tool("steghide-extract", "steghide", "image",
            {CategoryJPG, CategoryBMP, CategoryWAV, CategoryAU}, "steghide", "plain", ""),
       Tool("steghide-info", "steghide", "image",
            {CategoryJPG, CategoryBMP, CategoryWAV, CategoryAU}, "steghide", "plain", ""),
       Tool("pngcheck", "pngcheck", "image", {CategoryPNG}, "pngcheck", "plain", ""),
       Tool("identify", "gm", "image", allImageTypes, "gm", "plain", ""),
       Tool("jsteg", "jsteg", "image", {CategoryJPG}, "jsteg", "plain", ""),
       Tool("openstego", "openstego", "image", {CategoryPNG}, "openstego", "plain", ""),
       Tool("stegoveritas", "stegoveritas", "image", allImageTypes, "stegoveritas",
            "removeAllMkdir", "stegoveritas"),
       Tool("stegseek", "stegseek", "image",
            {CategoryJPG, CategoryBMP, CategoryWAV, CategoryAU}, "stegseek", "rockyou", ""),
       Tool("stegsolve", "python3", "image",
            {CategoryPNG, CategoryBMP, CategoryJPG}, "python3", "mkdir", "stegsolve_planes"),
       Tool("steghide-audio", "steghide", "audio", {CategoryWAV, CategoryAU},
            "steghide", "plain", ""),
       Tool("steghide-audio-info", "steghide", "audio", {CategoryWAV, CategoryAU},
            "steghide", "plain", ""),
       Tool("wavsteg", "stegolsb", "audio", {CategoryWAV}, "stegolsb", "plain", ""),
       Tool("sox-spectrogram", "sox", "audio",
            {CategoryWAV, CategoryMP3, CategoryFLAC, CategoryOGG}, "sox", "plain", ""),
       Tool("stegseek-audio", "stegseek", "audio", {CategoryWAV, CategoryAU},
            "stegseek", "rockyou", ""),
       Tool("unicode-steg", "python3", "text", allTypes, "python3", "plain", ""),
       Tool("spammimic", "python3", "text", allTypes, "python3", "plain", "") >>

\* ----------------------------------------------------------------- strings
\* strings.ToLower on the names the model draws as input: the registry's
\* names are lower case already, the mixed-case spellings map to them.
ToLower(s) ==
    CASE s = "ForeMost" -> "foremost"
      [] s = "STEGSEEK" -> "stegseek"
      [] s = "HexDump"  -> "hexdump"
      [] s = ".PNG" -> ".png"
      [] s = ".JPG" -> ".jpg"
      [] OTHER -> s

\* the set of the entries as they are spelled
ExactSet(list) == {list[k] : k \in 1..Len(list)}

\* the set a Go map[string]bool built from a list holds
LowerSet(list) == {ToLower(list[k]) : k \in 1..Len(list)}

\* unicode.IsSpace on the output alphabet
IsSpace(c) == c \in {" ", "\n"}

RECURSIVE TrimLeft(_)
TrimLeft(s) ==
    IF s = <<>> THEN <<>>
    ELSE IF IsSpace(Head(s)) THEN TrimLeft(Tail(s)) ELSE s

RECURSIVE TrimRight(_)
TrimRight(s) ==
    IF s = <<>> THEN <<>>
    ELSE IF IsSpace(s[Len(s)]) THEN TrimRight(SubSeq(s, 1, Len(s) - 1)) ELSE s

\* strings.TrimSpace
TrimSpace(s) == TrimRight(TrimLeft(s))

\* ------------------------------------------------------------ filterTools
\* filterFrom were a tool that declares no category applicable to none
RECURSIVE filterFromStrictTypes(_, _, _, _)
filterFromStrictTypes(tools, k, category, o) ==
    IF k > Len(tools) THEN <<>>
    ELSE LET tool == tools[k]
             rest == filterFromStrictTypes(tools, k + 1, category, o)
         IN  IF ToLower(tool.Name) \in LowerSet(o.Skip) THEN rest
             ELSE IF LowerSet(o.Only) # {} /\ ToLower(tool.Name) \notin LowerSet(o.Only)
                  THEN rest
             ELSE IF category \notin tool.SupportedTypes THEN rest
             ELSE <<tool>> \o rest

\* filterFrom were the kept tools pushed to the front of the list
RECURSIVE filterFromPrepending(_, _, _, _)
filterFromPrepending(tools, k, category, o) ==
    IF k > Len(tools) THEN <<>>
    ELSE LET tool == tools[k]
             rest == filterFromPrepending(tools, k + 1, category, o)
         IN  IF ToLower(tool.Name) \in LowerSet(o.Skip) THEN rest
             ELSE IF LowerSet(o.Only) # {} /\ ToLower(tool.Name) \notin LowerSet(o.Only)
                  THEN rest
             ELSE IF tool.SupportedTypes # {} /\ category \notin tool.SupportedTypes
                  THEN rest
             ELSE rest \o <<tool>>

\* filterFrom without the category rule
RECURSIVE filterFromAnyCategory(_, _, _, _)
filterFromAnyCategory(tools, k, category, o) ==
    IF k > Len(tools) THEN <<>>
    ELSE LET tool == tools[k]
             rest == filterFromAnyCategory(tools, k + 1, category, o)
         IN  IF ToLower(tool.Name) \in LowerSet(o.Skip) THEN rest
             ELSE IF LowerSet(o.Only) # {} /\ ToLower(tool.Name) \notin LowerSet(o.Only)
                  THEN rest
             ELSE <<tool>> \o rest

RECURSIVE filterFrom(_, _, _, _)
filterFrom(tools, k, category, o) ==
    IF k > Len(tools) THEN <<>>
    ELSE LET tool == tools[k]
             rest == filterFrom(tools, k + 1, category, o)
             skipSet == LowerSet(o.Skip)
             onlySet == LowerSet(o.Only)
         IN  IF ToLower(tool.Name) \in skipSet THEN rest
             ELSE IF onlySet # {} /\ ToLower(tool.Name) \notin onlySet THEN rest
             ELSE IF tool.SupportedTypes # {} /\ category \notin tool.SupportedTypes
                  THEN rest
             ELSE <<tool>> \o rest

filterTools(tools, info, o) == filterFrom(tools, 1, info.Category, o)

\* ------------------------------------------------------------------ inputs
\* names the --only list is drawn from: one tool per builder shape and one
\* (zsteg) that does not apply to every category drawn
OnlyPool == <<"foremost", "stegseek", "zsteg", "hexdump">>

\* the --only lists drawn: the contiguous runs of OnlyPool up to MaxOnly names
OnlyChoices ==
    {SubSeq(OnlyPool, w[1], w[2]) :
        w \in {v \in (1..Len(OnlyPool)) \X (1..Len(OnlyPool)) :
                  v[1] <= v[2] /\ v[2] - v[1] < MaxOnly}}

SkipChoices == {<<>>, <<"ForeMost">>}

CategoryChoices == {CategoryJPG}

\* opts.Timeout values drawn, in seconds: unset, positive, negative
TimeoutChoices == {0, 2, -1}

OutAlphabet == {" ", "a"}

RECURSIVE SeqsUpTo(_, _)
SeqsUpTo(S, n) ==
    IF n = 0 THEN {<<>>}
    ELSE LET shorter == SeqsUpTo(S, n - 1)
         IN  shorter \cup {Append(s, c) : s \in shorter, c \in S}

\* the byte streams CombinedOutput can capture
Outputs == SeqsUpTo(OutAlphabet, MaxOut)

\* the first n bytes of a byte sequence (all of it when it is shorter)
Prefix(bytes, n) == SubSeq(bytes, 1, IF n < Len(bytes) THEN n ELSE Len(bytes))

\* File contents the classifier is run on: the leading bytes of a PNG, a
\* JPEG/JFIF, a RIFF/WAVE and a plain-text file.
PngSample == <<137, 80, 78, 71, 13, 10, 26, 10, 0, 0, 0, 13, 73, 72>>
JpegSample == <<255, 216, 255, 224, 0, 16, 74, 70, 73, 70, 0, 1, 1, 0>>
WaveSample == <<82, 73, 70, 70, 36, 8, 0, 0, 87, 65, 86, 69, 102, 109>>
TextSample == <<104, 101, 108, 108, 111, 32, 119, 111, 114, 108, 100, 33, 10, 10>>

Samples == {PngSample, JpegSample, WaveSample, TextSample}

\* every sample cut to each length up to MaxContent, the empty file included
ContentChoices == {Prefix(b, n) : b \in Samples, n \in 0..MaxContent}

\* filepath.Ext of the path argument, as spelled on the command line
ExtChoices == {"", ".txt", ".jpg", ".PNG"}

\* What a path can name: nothing ("missing"), a directory ("dir"), a regular
\* file that os.Open refuses ("noperm"), one whose Read fails ("ioerr"), or
\* a readable regular file with the given content.
FileOnDisk(kind, content, ext) == [kind |-> kind, content |-> content, ext |-> ext]

FailingKinds == {"missing", "dir", "noperm", "ioerr"}

TargetChoices ==
    {FileOnDisk("regular", c, e) : c \in ContentChoices, e \in ExtChoices}
    \cup {FileOnDisk(k, <<>>, e) : k \in FailingKinds, e \in ExtChoices}

JpegFile == FileOnDisk("regular", JpegSample, ".jpg")

\* a path of one ordinary character
PlainPath == <<"a">>

\* ------------------------------------------------------------------- state
VARIABLES
    fileInfo,    \* the FileInfo handed to RunAll
    opts,        \* the RunOpts handed to RunAll
    path,        \* names exec.LookPath resolves
    rockyou,     \* the wordlist file: "absent", "partial" or "complete"
    fsLog,       \* file-system operations done by GetAllTools and the builders
    mainPc,      \* RunAll: "call", "running" (at wg.Wait), "returned"
    timeout,     \* RunAll's local opts.Timeout after line 44-46
    applicable,  \* the filtered tool list
    results,     \* results[i]: <<>> for a nil pointer, <<r>> for &r
    wg,          \* the WaitGroup counter
    pc,          \* position of goroutine i
    ctx,         \* deadline context of goroutine i: "none", "live", "expired",
                 \* "cancelled" (by the deferred cancel() before it expired)
    proc,        \* subprocess of i: "none", "running", "killed", "exit0"/"exit1"
                 \* (own exit before the deadline), "late0"/"late1" (after it)
    child,       \* descendant of the subprocess: "none", "pipe", "detached"
    built,       \* goroutines that invoked BuildCmd
    spawned,     \* goroutines for which a subprocess was started
    allTools,    \* the registry slice handed to filterTools where the filter
                 \* is studied by itself; <<>> elsewhere, RunAll's local being
                 \* read by nothing after the dispatch
    flags,       \* the scan command's flag variables (root.go)
    target,      \* what the scan's path argument names on disk
    detectErr,   \* the error Detect returned, "" for nil
    printed,     \* what PrintResults wrote, <<>> before it ran
    missing,     \* the tool names handed to PrintDepsNotice before the scan
    filePath,    \* fileInfo.Path, a sequence of characters, where the command
                 \* builders are studied by themselves; PlainPath elsewhere
    cmd          \* the argv of the *exec.Cmd a builder returned there; <<>>
                 \* elsewhere, the executor keeping only the program's name

vars == <<fileInfo, opts, path, rockyou, fsLog, mainPc, timeout, applicable,
          results, wg, pc, ctx, proc, child, built, spawned, allTools, flags,
          target, detectErr, printed, missing, filePath, cmd>>

\* what no step of RunAll after the dispatch and no goroutine changes
envVars ==
    <<fileInfo, opts, path, allTools, flags, target, detectErr, printed, missing, filePath, cmd>>

Tasks == 1..Len(applicable)

\* ----------------------------------------------------------------- results
NoError == [kind |-> "nil", after |-> 0, msg |-> ""]

\* fmt.Errorf("timeout after %s", opts.Timeout)
TimeoutError(d) == [kind |-> "timeout", after |-> d, msg |-> "timeout after"]

\* fmt.Errorf("%v", err)
ProcessError(e) == [kind |-> "process", after |-> 0, msg |-> e]

\* &output.Result{ToolName: t.Name, Category: t.Category}
NewResult(t) ==
    [ToolName |-> t.Name, Category |-> t.Category, Output |-> <<>>,
     Error |-> NoError, Duration |-> 0, Skipped |-> FALSE, SkipReason |-> ""]

\* fmt.Sprintf("%s not installed", t.Binary)
NotInstalled(binary) == binary \o " not installed"

\* deps.IsToolAvailable / isCommandAvailable
IsToolAvailable(binary) == binary \in path

\* time.Since(toolStart): some measured, positive wall time
Measured == 1

\* the names whose resolution matters to a scan with the given --only list
NamesOf(only) ==
    UNION {{GetAllTools[k].Binary, GetAllTools[k].Prog} :
              k \in {j \in 1..Len(GetAllTools) : GetAllTools[j].Name \in LowerSet(only)}}

\* ------------------------------------------------------------------- Init
\* no filtered list, no result slice, no goroutine, nothing printed
NoTasks ==
    /\ applicable = <<>>
    /\ results = <<>>
    /\ wg = 0
    /\ pc = <<>>
    /\ ctx = <<>>
    /\ proc = <<>>
    /\ child = <<>>
    /\ built = {}
    /\ spawned = {}
    /\ printed = <<>>
    /\ missing = {}
    /\ filePath = PlainPath
    /\ cmd = <<>>

\* RunAll has not been entered: GetAllTools has not run and has not made the
\* output directory
NotDispatched ==
    /\ fsLog = {}
    /\ allTools = <<>>
    /\ NoTasks

\* the values init() gives the flag variables of the scan command
FlagDefaults == [skip |-> <<>>, only |-> <<>>, timeout |-> DefaultFlagTimeout]

\* RunAll called with a FileInfo and RunOpts of the caller's making
Init ==
    /\ \E c \in CategoryChoices : fileInfo = [Category |-> c]
    /\ \E o \in OnlyChoices, s \in SkipChoices, t \in TimeoutChoices :
           opts = [Skip |-> s, Only |-> o, Timeout |-> t]
    /\ path \in SUBSET NamesOf(opts.Only)
    /\ rockyou \in {"absent", "complete"}
    /\ mainPc = "call"
    /\ timeout = opts.Timeout
    /\ flags = FlagDefaults
    /\ target = JpegFile
    /\ detectErr = ""
    /\ NotDispatched

\* ----------------------------------------------------------------- RunAll
\* RunAll up to wg.Wait(): the default timeout, the registry (which creates
\* the output directory), the filter, the result slice and one goroutine per
\* applicable tool.
Dispatch ==
    /\ mainPc = "call"
    /\ LET t == IF opts.Timeout = 0 THEN DefaultTimeout ELSE opts.Timeout
           app == filterTools(GetAllTools, fileInfo, opts)
           n == Len(app)
       IN  /\ timeout' = t
           /\ applicable' = app
           /\ results' = [i \in 1..n |-> <<>>]
           /\ wg' = n
           /\ pc' = [i \in 1..n |-> "check"]
           /\ ctx' = [i \in 1..n |-> "none"]
           /\ proc' = [i \in 1..n |-> "none"]
           /\ child' = [i \in 1..n |-> "none"]
    /\ fsLog' = fsLog \cup {<<"MkdirAll", "">>}
    /\ mainPc' = "running"
    /\ UNCHANGED <<envVars, rockyou, built, spawned>>

\* Store as it would be were results collected with append, in completion order
StoreAppend(i, r) ==
    /\ LET k == CHOOSE k \in DOMAIN results :
                    results[k] = <<>> /\ \A j \in 1..(k - 1) : results[j] # <<>>
       IN  results' = [results EXCEPT ![k] = <<r>>]
    /\ pc' = [pc EXCEPT ![i] = "done"]
    /\ wg' = wg - 1

\* results[idx] = result; return (with the deferred wg.Done())
Store(i, r) ==
    /\ results' = [results EXCEPT ![i] = <<r>>]
    /\ pc' = [pc EXCEPT ![i] = "done"]
    /\ wg' = wg - 1

\* CheckBinary as it would be were the command built before the binary check
CheckBinaryAfterBuild(i) ==
    /\ pc[i] = "check"
    /\ LET t == applicable[i]
       IN  IF ~IsToolAvailable(t.Binary)
           THEN /\ Store(i, [NewResult(t) EXCEPT !.Skipped = TRUE,
                                                 !.SkipReason = NotInstalled(t.Binary)])
                /\ built' = built \cup {i}
                /\ fsLog' = fsLog \cup
                       (CASE t.Builder = "removeAll" -> {<<"RemoveAll", t.Dir>>}
                          [] t.Builder = "removeAllMkdir" ->
                                 {<<"RemoveAll", t.Dir>>, <<"MkdirAll", t.Dir>>}
                          [] t.Builder = "mkdir" -> {<<"MkdirAll", t.Dir>>}
                          [] OTHER -> {})
           ELSE /\ pc' = [pc EXCEPT ![i] = "build"]
                /\ UNCHANGED <<results, wg, built, fsLog>>
    /\ UNCHANGED <<envVars, rockyou, mainPc, timeout, applicable, ctx, proc,
                   child, spawned>>

\* lines 63-74: the binary check
CheckBinary(i) ==
    /\ pc[i] = "check"
    /\ LET t == applicable[i]
       IN  IF ~IsToolAvailable(t.Binary)
           THEN Store(i, [NewResult(t) EXCEPT !.Skipped = TRUE,
                                              !.SkipReason = NotInstalled(t.Binary)])
           ELSE /\ pc' = [pc EXCEPT ![i] = "build"]
                /\ UNCHANGED <<results, wg>>
    /\ UNCHANGED <<envVars, rockyou, fsLog, mainPc, timeout, applicable, ctx, proc,
                   child, built, spawned>>

\* the file-system operations a BuildCmd does before it returns
BuilderOps(t) ==
    CASE t.Builder = "removeAll" -> {<<"RemoveAll", t.Dir>>}
      [] t.Builder = "removeAllMkdir" -> {<<"RemoveAll", t.Dir>>, <<"MkdirAll", t.Dir>>}
      [] t.Builder = "mkdir" -> {<<"MkdirAll", t.Dir>>}
      [] OTHER -> {}

\* line 77: cmd := t.BuildCmd(fileInfo.Path, opts).  A "rockyou" builder
\* whose os.Stat of the wordlist fails enters ensureRockyou and blocks in
\* http.Get.
Build(i) ==
    /\ pc[i] = "build"
    /\ built' = built \cup {i}
    /\ LET t == applicable[i]
       IN  /\ fsLog' = fsLog \cup BuilderOps(t)
           /\ IF t.Builder = "rockyou" /\ rockyou = "absent"
              THEN pc' = [pc EXCEPT ![i] = "httpget"]
              ELSE pc' = [pc EXCEPT ![i] = "start"]
    /\ UNCHANGED <<envVars, rockyou, mainPc, timeout, applicable, results, wg, ctx,
                   proc, child, spawned>>

\* lines 78-83: cmd == nil
NotApplicable(i) ==
    Store(i, [NewResult(applicable[i]) EXCEPT !.Skipped = TRUE,
                                              !.SkipReason = "command not applicable"])

\* ensureRockyou: MkdirAll, http.Get or os.Create failed, "" is returned
HttpGetFail(i) ==
    /\ pc[i] = "httpget"
    /\ NotApplicable(i)
    /\ UNCHANGED <<envVars, rockyou, fsLog, mainPc, timeout, applicable, ctx, proc,
                   child, built, spawned>>

\* ensureRockyou: the response arrived and os.Create made the (empty) file
HttpGetOk(i) ==
    /\ pc[i] = "httpget"
    /\ rockyou' = "partial"
    /\ pc' = [pc EXCEPT ![i] = "copy"]
    /\ UNCHANGED <<envVars, fsLog, mainPc, timeout, applicable, results, wg, ctx,
                   proc, child, built, spawned>>

\* ensureRockyou: io.Copy finished, the builder returns the command
CopyOk(i) ==
    /\ pc[i] = "copy"
    /\ rockyou' = "complete"
    /\ pc' = [pc EXCEPT ![i] = "start"]
    /\ UNCHANGED <<envVars, fsLog, mainPc, timeout, applicable, results, wg, ctx,
                   proc, child, built, spawned>>

\* ensureRockyou: io.Copy failed, os.Remove(localPath), "" is returned
CopyFail(i) ==
    /\ pc[i] = "copy"
    /\ rockyou' = "absent"
    /\ NotApplicable(i)
    /\ UNCHANGED <<envVars, fsLog, mainPc, timeout, applicable, ctx, proc,
                   child, built, spawned>>

\* Outcome as it would be were err and out examined before the deadline
OutcomeErrFirst(t, deadlineExceeded, err, out, d) ==
    LET r == [NewResult(t) EXCEPT !.Duration = Measured]
    IN  IF err # "nil"
        THEN IF TrimSpace(out) # <<>>
             THEN [r EXCEPT !.Output = TrimSpace(out)]
             ELSE IF deadlineExceeded THEN [r EXCEPT !.Error = TimeoutError(d)]
                  ELSE [r EXCEPT !.Error = ProcessError(err)]
        ELSE [r EXCEPT !.Output = TrimSpace(out)]

\* Outcome as it would be were the output stored before the classification
OutcomeKeepsOutput(t, deadlineExceeded, err, out, d) ==
    LET r == [NewResult(t) EXCEPT !.Duration = Measured, !.Output = TrimSpace(out)]
    IN  IF deadlineExceeded
        THEN [r EXCEPT !.Error = TimeoutError(d)]
        ELSE IF err # "nil" /\ TrimSpace(out) = <<>>
             THEN [r EXCEPT !.Error = ProcessError(err)]
             ELSE r

\* lines 95-109: the result of a command that was run
Outcome(t, deadlineExceeded, err, out, d) ==
    LET r == [NewResult(t) EXCEPT !.Duration = Measured]
    IN  IF deadlineExceeded
        THEN [r EXCEPT !.Error = TimeoutError(d)]
        ELSE IF err # "nil"
             THEN IF TrimSpace(out) # <<>>
                  THEN [r EXCEPT !.Output = TrimSpace(out)]
                  ELSE [r EXCEPT !.Error = ProcessError(err)]
             ELSE [r EXCEPT !.Output = TrimSpace(out)]

\* lines 94-111 once cmd2.CombinedOutput() has returned err and out: the
\* deadline context is read (ctx.Err()), the result is classified and stored,
\* and the deferred cancel() and wg.Done() run
Finish(i, deadlineExceeded, err, out) ==
    /\ Store(i, Outcome(applicable[i], deadlineExceeded, err, out, timeout))
    /\ ctx' = [ctx EXCEPT ![i] = IF deadlineExceeded THEN "expired" ELSE "cancelled"]

\* lines 86-94 up to cmd2.Start(): the deadline context and the subprocess.
\* A context made with a negative timeout is expired at once and Start
\* refuses to run; a program that does not resolve makes Start fail.  In
\* both cases CombinedOutput returns at once with no output.
StartCmd(i) ==
    /\ pc[i] = "start"
    /\ IF timeout < 0
       THEN /\ Finish(i, TRUE, "context deadline exceeded", <<>>)
            /\ UNCHANGED <<proc, spawned>>
       ELSE IF applicable[i].Prog \in path
       THEN /\ ctx' = [ctx EXCEPT ![i] = "live"]
            /\ proc' = [proc EXCEPT ![i] = "running"]
            /\ spawned' = spawned \cup {i}
            /\ pc' = [pc EXCEPT ![i] = "wait"]
            /\ UNCHANGED <<results, wg>>
       ELSE /\ Finish(i, FALSE, "executable file not found", <<>>)
            /\ UNCHANGED <<proc, spawned>>
    /\ UNCHANGED <<envVars, rockyou, fsLog, mainPc, timeout, applicable, child, built>>

\* the subprocess starts a descendant that inherits the captured pipe
\* ("pipe") or has its output redirected elsewhere ("detached")
ProcSpawnChild(i, kind) ==
    /\ proc[i] = "running"
    /\ child[i] = "none"
    /\ child' = [child EXCEPT ![i] = kind]
    /\ UNCHANGED <<envVars, rockyou, fsLog, mainPc, timeout, applicable, results, wg,
                   pc, ctx, proc, built, spawned>>

\* the subprocess exits on its own with the given status: "exit" while its
\* deadline has not expired, "late" after the expiry and before the kill
ProcExit(i, code) ==
    /\ proc[i] = "running"
    /\ proc' = [proc EXCEPT ![i] =
                   IF ctx[i] = "live"
                   THEN (IF code = 0 THEN "exit0" ELSE "exit1")
                   ELSE (IF code = 0 THEN "late0" ELSE "late1")]
    /\ UNCHANGED <<envVars, rockyou, fsLog, mainPc, timeout, applicable, results, wg,
                   pc, ctx, child, built, spawned>>

\* the descendant exits on its own
ChildExit(i) ==
    /\ child[i] # "none"
    /\ child' = [child EXCEPT ![i] = "none"]
    /\ UNCHANGED <<envVars, rockyou, fsLog, mainPc, timeout, applicable, results, wg,
                   pc, ctx, proc, built, spawned>>

\* DeadlineExpire as it would be were one context shared by all goroutines
DeadlineExpireShared(i) ==
    /\ pc[i] = "wait"
    /\ ctx[i] = "live"
    /\ ctx' = [j \in DOMAIN ctx |-> IF ctx[j] = "live" THEN "expired" ELSE ctx[j]]
    /\ UNCHANGED <<envVars, rockyou, fsLog, mainPc, timeout, applicable, results, wg,
                   pc, proc, child, built, spawned>>

\* the timer of context.WithTimeout(context.Background(), opts.Timeout) fires
DeadlineExpire(i) ==
    /\ pc[i] = "wait"
    /\ ctx[i] = "live"
    /\ ctx' = [ctx EXCEPT ![i] = "expired"]
    /\ UNCHANGED <<envVars, rockyou, fsLog, mainPc, timeout, applicable, results, wg,
                   pc, proc, child, built, spawned>>

\* exec.CommandContext: once the context is done the command's process, and
\* only that process, is killed (os.Process.Kill)
Kill(i) ==
    /\ ctx[i] = "expired"
    /\ proc[i] = "running"
    /\ proc' = [proc EXCEPT ![i] = "killed"]
    /\ UNCHANGED <<envVars, rockyou, fsLog, mainPc, timeout, applicable, results, wg,
                   pc, ctx, child, built, spawned>>

\* err of cmd.Wait for a terminated process
ExitErr(p) ==
    CASE p \in {"exit0", "late0"} -> "nil"
      [] p \in {"exit1", "late1"} -> "exit status 1"
      [] OTHER -> "signal: killed"

\* line 94 on: cmd2.CombinedOutput() returns once the process has terminated
\* and the output pipe reached EOF, that is no descendant holds it open
\* (WaitDelay is zero); out is whatever was written to the pipe
WaitReturn(i, out) ==
    /\ pc[i] = "wait"
    /\ proc[i] \notin {"none", "running"}
    /\ child[i] # "pipe"
    /\ Finish(i, ctx[i] = "expired", ExitErr(proc[i]), out)
    /\ UNCHANGED <<envVars, rockyou, fsLog, mainPc, timeout, applicable, proc, child,
                   built, spawned>>

\* Return as it would be without the wg.Wait() barrier
ReturnWithoutWait ==
    /\ mainPc = "running"
    /\ mainPc' = "returned"
    /\ UNCHANGED <<envVars, rockyou, fsLog, timeout, applicable, results, wg, pc, ctx,
                   proc, child, built, spawned>>

\* lines 115-122: wg.Wait() returns and the ScanResult is handed back
Return ==
    /\ mainPc = "running"
    /\ wg = 0
    /\ mainPc' = "returned"
    /\ UNCHANGED <<envVars, rockyou, fsLog, timeout, applicable, results, wg, pc, ctx,
                   proc, child, built, spawned>>

Next ==
    \/ Dispatch
    \/ Return
    \/ \E i \in Tasks : CheckBinary(i)
    \/ \E i \in Tasks : Build(i)
    \/ \E i \in Tasks : HttpGetFail(i)
    \/ \E i \in Tasks : HttpGetOk(i)
    \/ \E i \in Tasks : CopyOk(i)
    \/ \E i \in Tasks : CopyFail(i)
    \/ \E i \in Tasks : StartCmd(i)
    \/ \E i \in Tasks : \E kind \in {"pipe", "detached"} : ProcSpawnChild(i, kind)
    \/ \E i \in Tasks : \E code \in {0, 1} : ProcExit(i, code)
    \/ \E i \in Tasks : ChildExit(i)
    \/ \E i \in Tasks : DeadlineExpire(i)
    \/ \E i \in Tasks : Kill(i)
    \/ \E i \in Tasks : \E out \in Outputs : WaitReturn(i, out)

Spec == Init /\ [][Next]_vars

\* The Go scheduler runs every runnable goroutine, timers fire and the
\* exec package's watcher kills the process of a done context.  Nothing
\* obliges a subprocess, a descendant or the wordlist download to finish.
TaskFairness(i) ==
    /\ WF_vars(i \in Tasks /\ CheckBinary(i))
    /\ WF_vars(i \in Tasks /\ Build(i))
    /\ WF_vars(i \in Tasks /\ StartCmd(i))
    /\ WF_vars(i \in Tasks /\ DeadlineExpire(i))
    /\ WF_vars(i \in Tasks /\ Kill(i))
    /\ WF_vars(i \in Tasks /\ \E out \in Outputs : WaitReturn(i, out))

FairSpec ==
    /\ Spec
    /\ WF_vars(Dispatch)
    /\ WF_vars(Return)
    /\ \A i \in 1..MaxOnly : TaskFairness(i)

\* ---------------------------------------------------------------- Detect
\* the nil *FileInfo
NilFileInfo == [Category |-> ""]

\* Detect: os.Stat, IsDir, os.Open, one Read of up to HeaderSize bytes (which
\* returns 0, io.EOF at the end of an empty file), then detectCategory on
\* the lower-cased extension and the bytes read.
Detect(f) ==
    IF f.kind = "missing"
    THEN [info |-> NilFileInfo, err |-> "cannot access file"]
    ELSE IF f.kind = "dir"
    THEN [info |-> NilFileInfo, err |-> "path is a directory, not a file"]
    ELSE IF f.kind = "noperm"
    THEN [info |-> NilFileInfo, err |-> "cannot open file"]
    ELSE LET buf == Prefix(f.content, HeaderSize)
         IN  IF f.kind = "ioerr" \/ buf = <<>>
             THEN [info |-> NilFileInfo, err |-> "cannot read file"]
             ELSE [info |-> [Category |-> detectCategory(ToLower(f.ext), buf)],
                   err |-> ""]

\* ----------------------------------------------------------- scan command
\* a scan command that goes on after Detect returned an error
DetectFileGoesOn ==
    /\ mainPc = "detect"
    /\ fileInfo' = Detect(target).info
    /\ detectErr' = Detect(target).err
    /\ mainPc' = "classified"
    /\ UNCHANGED <<opts, path, rockyou, fsLog, timeout, applicable, results, wg,
                   pc, ctx, proc, child, built, spawned, allTools, flags, target,
                   printed, missing, filePath, cmd>>

\* scanCmd.Run up to the unknown-type notice: Detect, and os.Exit(1) when it
\* returned an error
DetectFile ==
    /\ mainPc = "detect"
    /\ LET d == Detect(target)
       IN  /\ fileInfo' = d.info
           /\ detectErr' = d.err
           /\ mainPc' = IF d.err # "" THEN "exit1" ELSE "classified"
    /\ UNCHANGED <<opts, path, rockyou, fsLog, timeout, applicable, results, wg,
                   pc, ctx, proc, child, built, spawned, allTools, flags, target,
                   printed, missing, filePath, cmd>>

\* the RunOpts scanCmd.Run builds from the flag variables
ScanOpts(f) ==
    LET o == [Skip |-> f.skip, Only |-> f.only, Timeout |-> ScanTimeout]
    IN  IF f.timeout > 0 THEN [o EXCEPT !.Timeout = 0] ELSE o

\* a ToolDep, by the fields the probe reads
ToolDep(name, binary, alts) == [Name |-> name, Binary |-> binary, AltBinaries |-> alts]

\* a catalog whose xxd entry declares an alternate binary
AllToolsWithAlternate ==
    << ToolDep("file", "file", <<>>), ToolDep("strings", "strings", <<>>),
       ToolDep("xxd", "xxd", <<"bash">>), ToolDep("exiftool", "exiftool", <<>>),
       ToolDep("binwalk", "binwalk", <<>>), ToolDep("foremost", "foremost", <<>>),
       ToolDep("steghide", "steghide", <<>>), ToolDep("zsteg", "zsteg", <<>>),
       ToolDep("pngcheck", "pngcheck", <<>>),
       ToolDep("stegoveritas", "stegoveritas", <<>>),
       ToolDep("stegseek", "stegseek", <<>>), ToolDep("openstego", "openstego", <<>>),
       ToolDep("jsteg", "jsteg", <<>>), ToolDep("GraphicsMagick", "gm", <<>>),
       ToolDep("sox", "sox", <<>>), ToolDep("stegolsb", "stegolsb", <<>>),
       ToolDep("stegsolve", "python3", <<>>) >>

\* deps.AllTools: the dependency catalog; no entry sets AltBinaries
AllTools ==
    << ToolDep("file", "file", <<>>), ToolDep("strings", "strings", <<>>),
       ToolDep("xxd", "xxd", <<>>), ToolDep("exiftool", "exiftool", <<>>),
       ToolDep("binwalk", "binwalk", <<>>), ToolDep("foremost", "foremost", <<>>),
       ToolDep("steghide", "steghide", <<>>), ToolDep("zsteg", "zsteg", <<>>),
       ToolDep("pngcheck", "pngcheck", <<>>),
       ToolDep("stegoveritas", "stegoveritas", <<>>),
       ToolDep("stegseek", "stegseek", <<>>), ToolDep("openstego", "openstego", <<>>),
       ToolDep("jsteg", "jsteg", <<>>), ToolDep("GraphicsMagick", "gm", <<>>),
       ToolDep("sox", "sox", <<>>), ToolDep("stegolsb", "stegolsb", <<>>),
       ToolDep("stegsolve", "python3", <<>>) >>

\* exec.LookPath(name) succeeds
isCommandAvailable(name) == name \in path

\* deps.CheckAll: for every catalog name, whether its binary or one of its
\* alternate binaries resolves
CheckAll ==
    [n \in {AllTools[k].Name : k \in 1..Len(AllTools)} |->
        LET tool == AllTools[CHOOSE k \in 1..Len(AllTools) : AllTools[k].Name = n]
        IN  \/ isCommandAvailable(tool.Binary)
            \/ \E a \in 1..Len(tool.AltBinaries) :
                   isCommandAvailable(tool.AltBinaries[a])]

\* scanCmd.Run from the missing-tools notice to the call of RunAll
CallRunAll ==
    /\ mainPc = "classified"
    /\ missing' = {n \in DOMAIN CheckAll : ~CheckAll[n]}
    /\ opts' = ScanOpts(flags)
    /\ timeout' = ScanOpts(flags).Timeout
    /\ mainPc' = "call"
    /\ UNCHANGED <<fileInfo, path, rockyou, fsLog, applicable, results, wg, pc,
                   ctx, proc, child, built, spawned, allTools, flags, target,
                   detectErr, printed, filePath, cmd>>

\* ----------------------------------------------------------- PrintSummary
ZeroTally == [total |-> 0, success |-> 0, failed |-> 0, skipped |-> 0, withOutput |-> 0]

\* the loop body were a failed result counted as run successfully as well
CountFailedAsRun(tally, r) ==
    IF r.Skipped THEN [tally EXCEPT !.skipped = @ + 1]
    ELSE [tally EXCEPT !.failed = IF r.Error # NoError THEN @ + 1 ELSE @,
                       !.success = @ + 1,
                       !.withOutput = IF TrimSpace(r.Output) # <<>> THEN @ + 1 ELSE @]

\* the loop body of PrintSummary on one result
Count(tally, r) ==
    IF r.Skipped THEN [tally EXCEPT !.skipped = @ + 1]
    ELSE IF r.Error # NoError THEN [tally EXCEPT !.failed = @ + 1]
    ELSE [tally EXCEPT !.success = @ + 1,
                       !.withOutput = IF TrimSpace(r.Output) # <<>> THEN @ + 1 ELSE @]

RECURSIVE CountFrom(_, _, _)
CountFrom(rs, k, tally) ==
    IF k > Len(rs) THEN tally
    ELSE CountFrom(rs, k + 1, Count(tally, rs[k][1]))

\* the five counters PrintSummary prints
PrintSummary(rs) == CountFrom(rs, 1, [ZeroTally EXCEPT !.total = Len(rs)])

\* ----------------------------------------------------------- PrintResults
\* a category list without the last section
categoriesShort == <<"general", "image", "audio">>

categories == <<"general", "image", "audio", "text">>

\* catResults: the non-nil results of one category, in slice order
catResults(rs, cat) == SelectSeq(rs, LAMBDA p : p # <<>> /\ p[1].Category = cat)

\* what one round of the category loop writes: nothing for an empty
\* category, else the header and one block per result
Section(rs, cat) ==
    LET c == catResults(rs, cat)
    IN  IF Len(c) = 0 THEN <<>>
        ELSE << <<"header", cat>> >> \o [j \in 1..Len(c) |-> <<"result", c[j][1]>>]

RECURSIVE SectionsFrom(_, _)
SectionsFrom(rs, k) ==
    IF k > Len(categories) THEN <<>>
    ELSE Section(rs, categories[k]) \o SectionsFrom(rs, k + 1)

PrintResults ==
    /\ mainPc = "returned"
    /\ printed' = <<[lines |-> SectionsFrom(results, 1), tally |-> PrintSummary(results)]>>
    /\ mainPc' = "printed"
    /\ UNCHANGED <<fileInfo, opts, path, rockyou, fsLog, timeout, applicable,
                   results, wg, pc, ctx, proc, child, built, spawned, allTools,
                   flags, target, detectErr, missing, filePath, cmd>>

\* ----------------------------------------------------- the classifier alone
DetectInit ==
    /\ target \in TargetChoices
    /\ flags = FlagDefaults
    /\ fileInfo = NilFileInfo
    /\ detectErr = ""
    /\ opts = [Skip |-> <<>>, Only |-> <<>>, Timeout |-> 0]
    /\ timeout = 0
    /\ path = {}
    /\ rockyou = "absent"
    /\ mainPc = "detect"
    /\ NotDispatched

DetectSpec == DetectInit /\ [][DetectFile]_vars

\* ------------------------------------------------------- the report alone
\* tools named by --only: two general ones and one of each other section,
\* all of them applicable to a WAV file
ReportPool == <<"file", "strings", "steghide-info", "wavsteg", "spammimic">>

\* the --only lists drawn: every selection of one to four names of the pool
ReportOnlyChoices ==
    {SelectSeq(ReportPool, LAMBDA n : n \in S) :
        S \in {T \in SUBSET ExactSet(ReportPool) : T # {} /\ T # ExactSet(ReportPool)}}

ReportCategories == {CategoryWAV, CategoryPNG}

\* how a goroutine can end: binary missing, deadline exceeded, or the
\* subprocess returned err and out
Endings ==
    {<<"missing", "nil", <<>> >>, <<"deadline", "nil", <<>> >>}
    \cup {<<"exited", e, out>> : e \in {"nil", "exit status 1"}, out \in Outputs}

\* the result RunAll stores for tool t when its goroutine ends that way
ResultOf(t, ending) ==
    IF ending[1] = "missing"
    THEN [NewResult(t) EXCEPT !.Skipped = TRUE, !.SkipReason = NotInstalled(t.Binary)]
    ELSE Outcome(t, ending[1] = "deadline", ending[2], ending[3], DefaultTimeout)

\* RunAll has returned a ScanResult for some filtered list, each tool having
\* ended in one of the ways above
ReportInit ==
    /\ \E c \in ReportCategories : fileInfo = [Category |-> c]
    /\ \E o \in ReportOnlyChoices :
           opts = [Skip |-> <<>>, Only |-> o, Timeout |-> DefaultTimeout]
    /\ timeout = DefaultTimeout
    /\ allTools = <<>>
    /\ applicable = filterTools(GetAllTools, fileInfo, opts)
    /\ \E e \in [1..Len(applicable) -> Endings] :
           results = [i \in 1..Len(applicable) |-> <<ResultOf(applicable[i], e[i])>>]
    /\ wg = 0
    /\ pc = [i \in 1..Len(applicable) |-> "done"]
    /\ ctx = [i \in 1..Len(applicable) |->
                 IF results[i][1].Skipped THEN "none"
                 ELSE IF results[i][1].Error.kind = "timeout" THEN "expired"
                 ELSE "cancelled"]
    /\ proc = [i \in 1..Len(applicable) |-> "none"]
    /\ child = [i \in 1..Len(applicable) |-> "none"]
    /\ built = {i \in 1..Len(applicable) : ~results[i][1].Skipped}
    /\ spawned = {}
    /\ path = {}
    /\ rockyou = "absent"
    /\ fsLog = {<<"MkdirAll", "">>}
    /\ flags = FlagDefaults
    /\ target = JpegFile
    /\ detectErr = ""
    /\ printed = <<>>
    /\ missing = {}
    /\ filePath = PlainPath
    /\ cmd = <<>>
    /\ mainPc = "returned"

ReportSpec == ReportInit /\ [][PrintResults]_vars

\* ---------------------------------------------------------- the filter alone
\* a registry whose generic tools leave SupportedTypes nil
CustomTools ==
    << Tool("strings", "strings", "general", {}, "strings", "plain", ""),
       Tool("foremost", "foremost", "general", {}, "foremost", "removeAll", "foremost"),
       Tool("zsteg", "zsteg", "image", {CategoryPNG, CategoryBMP}, "zsteg", "plain", ""),
       Tool("wavsteg", "stegolsb", "audio", {CategoryWAV}, "stegolsb", "plain", "") >>

RegistryChoices == {GetAllTools, CustomTools}

\* every value of FileInfo.Category
AllCategories == allTypes \cup {CategoryUnknown}

\* names the --skip and --only lists are made of, in any order and number
FilterNames == {"zsteg", "ForeMost", "strings"}

FilterLists == SeqsUpTo(FilterNames, MaxOnly)

\* filterTools about to be called by RunAll: the registry is built (and the
\* output directory with it), nothing else has happened
FilterInit ==
    /\ allTools \in RegistryChoices
    /\ \E c \in AllCategories : fileInfo = [Category |-> c]
    /\ \E s \in FilterLists, o \in FilterLists :
           opts = [Skip |-> s, Only |-> o, Timeout |-> DefaultTimeout]
    /\ timeout = DefaultTimeout
    /\ flags = FlagDefaults
    /\ target = JpegFile
    /\ detectErr = ""
    /\ path = {}
    /\ rockyou = "absent"
    /\ fsLog = {<<"MkdirAll", "">>}
    /\ mainPc = "filter"
    /\ NoTasks

\* applicable := filterTools(allTools, fileInfo, opts)
FilterTools ==
    /\ mainPc = "filter"
    /\ applicable' = filterTools(allTools, fileInfo, opts)
    /\ mainPc' = "filtered"
    /\ UNCHANGED <<fileInfo, opts, path, rockyou, fsLog, timeout, results, wg, pc,
                   ctx, proc, child, built, spawned, allTools, flags, target,
                   detectErr, printed, missing, filePath, cmd>>

\* filterTools applied to its own result
FilterAgain ==
    /\ mainPc = "filtered"
    /\ applicable' = filterTools(applicable, fileInfo, opts)
    /\ mainPc' = "refiltered"
    /\ UNCHANGED <<fileInfo, opts, path, rockyou, fsLog, timeout, results, wg, pc,
                   ctx, proc, child, built, spawned, allTools, flags, target,
                   detectErr, printed, missing, filePath, cmd>>

FilterNext == FilterTools \/ FilterAgain

FilterSpec == FilterInit /\ [][FilterNext]_vars

\* ------------------------------------------- the filter on the README's names
\* one row of the README's Integrated Tools table: the identifier and the
\* formats it is documented for
Row(id, formats) == [id |-> id, formats |-> formats]

ReadmeTools ==
    << Row("file", allTypes), Row("exiftool", allTypes), Row("binwalk", allTypes),
       Row("foremost", allTypes), Row("strings", allTypes), Row("xxd", allTypes),
       Row("zsteg", {CategoryPNG, CategoryBMP}),
       Row("steghide", {CategoryJPG, CategoryBMP, CategoryWAV, CategoryAU}),
       Row("pngcheck", {CategoryPNG}), Row("jsteg", {CategoryJPG}),
       Row("openstego", {CategoryPNG}), Row("stegoveritas", allImageTypes),
       Row("stegseek", {CategoryJPG, CategoryBMP}),
       Row("stegsolve", {CategoryPNG, CategoryJPG, CategoryBMP}),
       Row("identify", allImageTypes),
       Row("sox", {CategoryWAV, CategoryMP3, CategoryFLAC, CategoryOGG}),
       Row("wavsteg", {CategoryWAV}) >>

\* the lists of the README's usage examples
ReadmeSkipExample == <<"stegoveritas", "foremost">>
ReadmeOnlyExample == <<"steghide", "exiftool", "zsteg">>

\* the option pairs drawn: one documented identifier alone in either list,
\* and the two usage examples
ReadmeOptChoices ==
    {[Skip |-> <<>>, Only |-> <<ReadmeTools[k].id>>, Timeout |-> DefaultTimeout] :
        k \in 1..Len(ReadmeTools)}
    \cup {[Skip |-> <<ReadmeTools[k].id>>, Only |-> <<>>, Timeout |-> DefaultTimeout] :
        k \in 1..Len(ReadmeTools)}
    \cup {[Skip |-> <<>>, Only |-> ReadmeOnlyExample, Timeout |-> DefaultTimeout],
          [Skip |-> ReadmeSkipExample, Only |-> <<>>, Timeout |-> DefaultTimeout]}

ReadmeInit ==
    /\ allTools = GetAllTools
    /\ \E c \in allTypes : fileInfo = [Category |-> c]
    /\ opts \in ReadmeOptChoices
    /\ timeout = DefaultTimeout
    /\ flags = FlagDefaults
    /\ target = JpegFile
    /\ detectErr = ""
    /\ path = {}
    /\ rockyou = "absent"
    /\ fsLog = {<<"MkdirAll", "">>}
    /\ mainPc = "filter"
    /\ NoTasks

ReadmeSpec == ReadmeInit /\ [][FilterTools]_vars

\* ----------------------------------------------- the two wordlist crackers
\* the two registry tools that use the wordlist, both declared for wav and au
WordlistTools == <<"stegseek", "stegseek-audio">>

WordlistCategories == {CategoryWAV, CategoryAU}

\* RunAll called for an audio file with the two crackers selected
WordlistInit ==
    /\ \E c \in WordlistCategories : fileInfo = [Category |-> c]
    /\ \E t \in TimeoutChoices :
           opts = [Skip |-> <<>>, Only |-> WordlistTools, Timeout |-> t]
    /\ path \in SUBSET NamesOf(opts.Only)
    /\ rockyou \in {"absent", "complete"}
    /\ mainPc = "call"
    /\ timeout = opts.Timeout
    /\ flags = FlagDefaults
    /\ target = JpegFile
    /\ detectErr = ""
    /\ NotDispatched

WordlistSpec == WordlistInit /\ [][Next]_vars

\* ----------------------------------------------------- the command builders
\* Scripts are sequences of pieces: a piece is a stretch of the literal text
\* of the format string that holds no unpaired quote, a single quote "'", the
\* verb "%s", or (after formatting) one character of an argument.

\* fmt.Sprintf(format, args...) for a format whose verbs are all %s: the
\* k-th verb is replaced by the k-th argument, character for character
RECURSIVE Sprintf(_, _)
Sprintf(format, args) ==
    IF format = <<>> THEN <<>>
    ELSE IF Head(format) = "%s"
         THEN Head(args) \o Sprintf(Tail(format), Tail(args))
         ELSE <<Head(format)>> \o Sprintf(Tail(format), args)

\* "xxd '%s' | head -50"
HexdumpScript == <<"xxd ", "'", "%s", "'", " | head -50">>

\* the stegsolve script: out_dir = '%s' and img_path = '%s' between the
\* import block and the bit-plane loop
StegsolveScript ==
    <<"import sys, os ... out_dir = ", "'", "%s", "'", " img_path = ", "'", "%s", "'",
      " try: img = Image.open(img_path) ...">>

\* the unicode-steg script: with open('%s', 'r', errors='ignore') as f:
UnicodeScript ==
    <<"import sys zwc = {...} try: with open(", "'", "%s", "'",
      ", 'r', errors='ignore') as f: data = f.read() ...">>

\* the spammimic script: with open('%s', 'r', errors='ignore') as f:
SpammimicScript ==
    <<"import re try: with open(", "'", "%s", "'",
      ", 'r', errors='ignore') as f: data = f.read() ...">>

\* filepath.Join(outputDir, "stegsolve_planes") for the default directory
StegsolveOutDir == <<"/tmp/steg-cli-output/stegsolve_planes">>

\* the registry tools whose BuildCmd formats the path into a script
ScriptTools == {"hexdump", "stegsolve", "unicode-steg", "spammimic"}

\* t.BuildCmd(fp, opts) of a script tool: the argv of the command
BuildCmd(t, fp) ==
    CASE t.Name = "hexdump" -> <<"bash", "-c", Sprintf(HexdumpScript, <<fp>>)>>
      [] t.Name = "stegsolve" ->
             <<"python3", "-c", Sprintf(StegsolveScript, <<StegsolveOutDir, fp>>)>>
      [] t.Name = "unicode-steg" -> <<"python3", "-c", Sprintf(UnicodeScript, <<fp>>)>>
      [] t.Name = "spammimic" -> <<"python3", "-c", Sprintf(SpammimicScript, <<fp>>)>>

\* characters a file name can hold: a letter, a single quote, a semicolon
PathAlphabet == {"a", "'", ";"}

PathChoices == SeqsUpTo(PathAlphabet, MaxPath) \ {<<>>}

\* one script tool is about to build its command for a file of any name
BuildInit ==
    /\ \E k \in 1..Len(GetAllTools) :
           /\ GetAllTools[k].Name \in ScriptTools
           /\ applicable = <<GetAllTools[k]>>
    /\ filePath \in PathChoices
    /\ cmd = <<>>
    /\ fileInfo = [Category |-> CategoryJPG]
    /\ opts = [Skip |-> <<>>, Only |-> <<>>, Timeout |-> DefaultTimeout]
    /\ timeout = DefaultTimeout
    /\ flags = FlagDefaults
    /\ target = JpegFile
    /\ detectErr = ""
    /\ path = {}
    /\ rockyou = "absent"
    /\ fsLog = {<<"MkdirAll", "">>}
    /\ allTools = <<>>
    /\ mainPc = "build"
    /\ results = <<>>
    /\ wg = 0
    /\ pc = <<>>
    /\ ctx = <<>>
    /\ proc = <<>>
    /\ child = <<>>
    /\ built = {}
    /\ spawned = {}
    /\ printed = <<>>
    /\ missing = {}

\* cmd := t.BuildCmd(fileInfo.Path, opts), with the MkdirAll of stegsolve
BuildCommand ==
    /\ mainPc = "build"
    /\ cmd' = BuildCmd(applicable[1], filePath)
    /\ fsLog' = fsLog \cup BuilderOps(applicable[1])
    /\ mainPc' = "built"
    /\ UNCHANGED <<fileInfo, opts, path, rockyou, timeout, applicable, results, wg,
                   pc, ctx, proc, child, built, spawned, allTools, flags, target,
                   detectErr, printed, missing, filePath>>

BuildSpec == BuildInit /\ [][BuildCommand]_vars

\* ------------------------------------------------------- the scan command
\* --only lists given on the command line
CliOnlyChoices == {<<"stegseek">>, <<"foremost", "HexDump">>}

\* --timeout values given on the command line: non-positive, the default
\* and another positive one
FlagTimeoutChoices == {0, 5, DefaultFlagTimeout}

\* paths given on the command line: one per way Detect can fail, an empty
\* file, a JPEG and a file too short for its signature to be examined
CliTargets ==
    {FileOnDisk(k, <<>>, ".jpg") : k \in FailingKinds}
    \cup {FileOnDisk("regular", <<>>, ".jpg"), JpegFile,
          FileOnDisk("regular", Prefix(PngSample, Len(SigPNG)), ".txt")}

CliInit ==
    /\ target \in CliTargets
    /\ \E o \in CliOnlyChoices, t \in FlagTimeoutChoices :
           flags = [skip |-> <<>>, only |-> o, timeout |-> t]
    /\ fileInfo = NilFileInfo
    /\ detectErr = ""
    /\ opts = [Skip |-> <<>>, Only |-> <<>>, Timeout |-> 0]
    /\ timeout = 0
    /\ path \in SUBSET NamesOf(flags.only)
    /\ rockyou \in {"absent", "complete"}
    /\ mainPc = "detect"
    /\ NotDispatched

CliNext == DetectFile \/ CallRunAll \/ Next \/ PrintResults

CliSpec == CliInit /\ [][CliNext]_vars

\* ------------------------------------------------------------- properties
Result(i) == results[i][1]

IsSuccess(r) == ~r.Skipped /\ r.Error = NoError

\* the deadline of task i expired while its subprocess was still running
ExpiredWhileRunning(i) == proc[i] \in {"killed", "late0", "late1"}

\* C1: when RunAll has returned, the result collection is as long as the
\* filtered list and no entry is nil.
ResultsComplete ==
    mainPc = "returned" =>
        /\ Len(results) = Len(applicable)
        /\ \A i \in Tasks : results[i] # <<>> /\ Len(results[i]) = 1

\* C1 witness: RunAll returned a two-tool batch, one tool skipped for a
\* missing binary and one that ran.
ResultsCompleteWitness ==
    /\ mainPc = "returned"
    /\ Len(applicable) = 2
    /\ \E i, j \in Tasks : Result(i).Skipped /\ ~Result(j).Skipped /\ j \in spawned

\* C2: whatever the order of completion, a stored result sits at the
\* position of its own tool in the filtered list: slot i is written only by
\* task i and carries the name and category of the i-th tool.
ResultAtOwnIndex ==
    \A i \in Tasks :
        results[i] # <<>> =>
            /\ pc[i] = "done"
            /\ Result(i).ToolName = applicable[i].Name
            /\ Result(i).Category = applicable[i].Category

\* C2 witness: the second tool has finished while the first is still
\* running, and its result is in the second slot.
ResultAtOwnIndexWitness ==
    /\ Len(applicable) = 2
    /\ results[1] = <<>>
    /\ proc[1] = "running"
    /\ results[2] # <<>>
    /\ Result(2).ToolName = applicable[2].Name

\* the state of one task
TaskState(j) == <<pc[j], ctx[j], proc[j], child[j], results[j]>>

\* the results task j can record when CombinedOutput returns, from the
\* state of its own subprocess and its own deadline alone
OwnOutcomes(j) ==
    {Outcome(applicable[j], ctx[j] = "expired", ExitErr(proc[j]), out, timeout) :
        out \in Outputs}

\* C3: a deadline expiry, a kill or a failing exit of one task changes
\* nothing of any sibling task, and the result a task records after its
\* subprocess ended is determined by its own subprocess and deadline.
SiblingsUnaffected ==
    [][/\ \A i \in Tasks :
             (\/ ctx[i] = "live" /\ ctx'[i] = "expired"
              \/ proc[i] = "running" /\ proc'[i] \in {"killed", "exit1", "late1"})
             => \A j \in Tasks \ {i} : TaskState(j)' = TaskState(j)
       /\ \A j \in Tasks :
             pc[j] = "wait" /\ pc'[j] = "done"
             => results'[j][1] \in OwnOutcomes(j)]_vars

\* C3 witness: RunAll returned; one task was killed at its deadline and
\* reports the timeout, its sibling exited with status 0 and reports its output.
SiblingsUnaffectedWitness ==
    /\ mainPc = "returned"
    /\ \E i, j \in Tasks :
           /\ proc[i] = "killed" /\ Result(i).Error.kind = "timeout"
           /\ proc[j] = "exit0" /\ IsSuccess(Result(j)) /\ Result(j).Output = <<"a">>

\* C4: under fair scheduling RunAll eventually returns.
RunAllReturns == <>(mainPc = "returned")

\* C5: a task whose subprocess was still running when the deadline expired
\* records a failure whose error is the timeout error naming opts.Timeout
\* (60 s when it was left unset), with no output, whatever was captured.
TimeoutIsFailure ==
    \A i \in Tasks :
        pc[i] = "done" /\ ExpiredWhileRunning(i) =>
            /\ ~Result(i).Skipped
            /\ Result(i).Error =
                   TimeoutError(IF opts.Timeout = 0 THEN DefaultTimeout ELSE opts.Timeout)
            /\ Result(i).Output = <<>>

\* C5 witness: a subprocess killed at its 2 s deadline, recorded as the
\* failure "timeout after 2s" without output.
TimeoutIsFailureWitness ==
    \E i \in Tasks :
        /\ pc[i] = "done"
        /\ proc[i] = "killed"
        /\ opts.Timeout = 2
        /\ ~Result(i).Skipped
        /\ Result(i).Output = <<>>
        /\ Result(i).Error = TimeoutError(2)

\* C6: after RunAll has returned, no descendant of a subprocess that was
\* killed at its deadline is still running.
NoOrphanAfterTimeout ==
    mainPc = "returned" =>
        \A i \in Tasks : proc[i] = "killed" => child[i] = "none"

\* C7: a task whose binary does not resolve records a skip with reason
\* "<binary> not installed"; its command builder is never invoked, none of
\* the builder's file-system operations happen and no subprocess is started.
MissingBinarySkipped ==
    \A i \in Tasks :
        ~IsToolAvailable(applicable[i].Binary) =>
            /\ i \notin built
            /\ i \notin spawned
            /\ BuilderOps(applicable[i]) \cap fsLog = {}
            /\ pc[i] = "done" =>
                   /\ Result(i).Skipped
                   /\ Result(i).SkipReason = NotInstalled(applicable[i].Binary)

\* C7 witness: foremost is not installed and was skipped, while a sibling's
\* builder ran; <outputDir>/foremost was not cleared.
MissingBinarySkippedWitness ==
    \E i, j \in Tasks :
        /\ applicable[i].Name = "foremost"
        /\ pc[i] = "done"
        /\ Result(i).SkipReason = "foremost not installed"
        /\ <<"RemoveAll", "foremost">> \notin fsLog
        /\ j \in built

\* C8: when CombinedOutput returns for a subprocess that exited with a
\* non-zero status before its deadline, the result recorded for captured
\* bytes out whose trimmed form is not empty is a success carrying exactly
\* TrimSpace(out), with no error.
NonZeroExitWithOutputSucceeds ==
    [][\A i \in Tasks :
          pc[i] = "wait" /\ proc[i] = "exit1" /\ pc'[i] = "done" =>
              \E out \in Outputs :
                  LET r == results'[i][1]
                  IN  \/ /\ TrimSpace(out) # <<>>
                         /\ IsSuccess(r)
                         /\ r.Output = TrimSpace(out)
                      \/ /\ TrimSpace(out) = <<>>
                         /\ r.Error = ProcessError(ExitErr(proc[i]))]_vars

\* C9: when CombinedOutput returns, the result (never a skip) carries an
\* error exactly if the deadline had expired while the subprocess ran or the
\* subprocess ended with a process error and empty trimmed output; a zero
\* exit before the deadline is a success carrying the trimmed output.
ErrorIffTimeoutOrEmptyFailure ==
    [][\A i \in Tasks :
          pc[i] = "wait" /\ pc'[i] = "done" =>
              \E out \in Outputs :
                  LET r == results'[i][1]
                  IN  /\ ~r.Skipped
                      /\ r.Error # NoError <=>
                             \/ ExpiredWhileRunning(i)
                             \/ ExitErr(proc[i]) # "nil" /\ TrimSpace(out) = <<>>
                      /\ r.Error = NoError => r.Output = TrimSpace(out)
                      /\ proc[i] = "exit0" => IsSuccess(r)]_vars

\* C10: a result is a skip with a reason, or a failure with an error, or a
\* success with output, never two of them: a skip has no error, no output
\* and no duration, and an error comes with no output.
OneOutcome ==
    \A i \in Tasks :
        results[i] # <<>> =>
            LET r == Result(i)
            IN  /\ r.Skipped <=> r.SkipReason # ""
                /\ r.Skipped => r.Error = NoError /\ r.Output = <<>> /\ r.Duration = 0
                /\ r.Error # NoError => r.Output = <<>>

\* C10 witness: one batch holds a skip and the timeout failure of a killed
\* subprocess.
OneOutcomeWitness ==
    \E i, j \in Tasks :
        /\ results[i] # <<>> /\ Result(i).Skipped
        /\ results[j] # <<>> /\ Result(j).Error.kind = "timeout"
        /\ proc[j] = "killed"

\* C11: for every --timeout N > 0 given on the command line, RunAll applies a
\* deadline of N seconds to every tool and the error of a timed-out tool
\* names N seconds.
CliTimeoutIsDeadline ==
    (mainPc \in {"running", "returned", "printed"} /\ flags.timeout > 0) =>
        /\ timeout = flags.timeout
        /\ \A i \in Tasks :
               (results[i] # <<>> /\ Result(i).Error.kind = "timeout") =>
                   Result(i).Error.after = flags.timeout

\* C17: a readable file of 4 bytes or more whose content begins with the PNG
\* signature is classified as png and counts as an image, whatever its
\* extension.
PngSignatureWins ==
    (/\ mainPc # "detect"
     /\ target.kind = "regular"
     /\ Len(target.content) >= Len(SigPNG)
     /\ HasBytes(target.content, 0, SigPNG)) =>
        /\ detectErr = ""
        /\ fileInfo.Category = CategoryPNG
        /\ IsImage(fileInfo)

\* C18: when the path is missing, a directory, or cannot be opened or read,
\* Detect returns an error and no FileInfo, and the scan command exits with
\* no registry built, no directory created, no goroutine and no subprocess.
ClassificationFailureAborts ==
    /\ (mainPc # "detect" /\ target.kind \in FailingKinds) => detectErr # ""
    /\ detectErr # "" =>
           /\ fileInfo = NilFileInfo
           /\ mainPc = "exit1"
           /\ NotDispatched

ClassificationFailureAbortsWitness ==
    /\ mainPc = "exit1"
    /\ target.kind = "ioerr"
    /\ detectErr = "cannot read file"

\* strings.EqualFold on the names drawn: equal after lower-casing
EqualFold(a, b) == ToLower(a) = ToLower(b)

NamedIn(list, name) == \E k \in 1..Len(list) : EqualFold(list[k], name)

Filtered == mainPc \in {"filtered", "refiltered"}

\* C12: no tool of the filtered list is named, in any letter case, by an
\* entry of the exclude list, whether or not the include list names it too.
ExcludeWins ==
    Filtered =>
        \A i \in 1..Len(applicable) : ~NamedIn(opts.Skip, applicable[i].Name)

ExcludeWinsWitness ==
    /\ mainPc = "filtered"
    /\ applicable # <<>>
    /\ \E k \in 1..Len(allTools) :
           /\ NamedIn(opts.Skip, allTools[k].Name)
           /\ NamedIn(opts.Only, allTools[k].Name)
           /\ fileInfo.Category \in allTools[k].SupportedTypes
           /\ allTools[k].Name \notin ExactSet(opts.Skip)

\* C13: a tool with no applicable category declared is in the filtered list
\* for every file category, unknown included, unless the exclude list names
\* it or a non-empty include list does not.
EmptyTypesAlwaysApply ==
    mainPc = "filtered" =>
        \A k \in 1..Len(allTools) :
            (/\ allTools[k].SupportedTypes = {}
             /\ ~NamedIn(opts.Skip, allTools[k].Name)
             /\ (opts.Only = <<>> \/ NamedIn(opts.Only, allTools[k].Name))) =>
                \E i \in 1..Len(applicable) : applicable[i] = allTools[k]

EmptyTypesAlwaysApplyWitness ==
    /\ mainPc = "filtered"
    /\ fileInfo.Category = CategoryUnknown
    /\ opts.Only # <<>>
    /\ \E i \in 1..Len(applicable) : applicable[i].SupportedTypes = {}
    /\ \E k \in 1..Len(allTools) :
           allTools[k].SupportedTypes = {} /\ NamedIn(opts.Skip, allTools[k].Name)

\* the three rules of the claim on one descriptor
Kept(tool, info, o) ==
    /\ ~NamedIn(o.Skip, tool.Name)
    /\ (o.Only = <<>> \/ NamedIn(o.Only, tool.Name))
    /\ (tool.SupportedTypes = {} \/ info.Category \in tool.SupportedTypes)

Selection(tools, info, o) == SelectSeq(tools, LAMBDA t : Kept(t, info, o))

Reverse(list) == [k \in 1..Len(list) |-> list[Len(list) + 1 - k]]

Rotate(list) == IF list = <<>> THEN list ELSE Tail(list) \o <<Head(list)>>

\* the same entries in other orders and numbers
Rearrangements(list) ==
    {Reverse(list), Rotate(list), list \o list, list \o Reverse(list)}

\* C14: filterTools returns exactly the registry-order subsequence of the
\* tools that are not excluded, are included when an include list is given
\* and apply to the category; reordering or repeating the entries of the
\* lists gives the same result; filtering the result again returns it; and
\* the registry, the file record and the options are left as they were.
FilterIsStableSelection ==
    [][/\ mainPc = "filter" =>
            /\ applicable' = Selection(allTools, fileInfo, opts)
            /\ \A a \in Rearrangements(opts.Skip) :
                   filterTools(allTools, fileInfo, [opts EXCEPT !.Skip = a]) = applicable'
            /\ \A b \in Rearrangements(opts.Only) :
                   filterTools(allTools, fileInfo, [opts EXCEPT !.Only = b]) = applicable'
       /\ mainPc = "filtered" => applicable' = applicable
       /\ mainPc \in {"filter", "filtered"} =>
            (allTools' = allTools /\ fileInfo' = fileInfo /\ opts' = opts)]_vars

FilterIsStableSelectionWitness ==
    /\ mainPc = "refiltered"
    /\ Len(applicable) >= 2
    /\ Len(applicable) < Len(allTools)
    /\ Len(opts.Only) >= 2
    /\ opts.Only # Reverse(opts.Only)

GeneralTools == {"file", "exiftool", "binwalk", "strings", "hexdump", "foremost"}

\* C16: for a file of category unknown the filtered list of the built-in
\* registry holds the general tools the lists admit and no other tool, and
\* is not empty under the default options.
UnknownRunsGeneralTools ==
    (mainPc = "filtered" /\ allTools = GetAllTools
        /\ fileInfo.Category = CategoryUnknown) =>
        /\ {applicable[i].Name : i \in 1..Len(applicable)} =
               {n \in GeneralTools :
                   ~NamedIn(opts.Skip, n) /\ (opts.Only = <<>> \/ NamedIn(opts.Only, n))}
        /\ (opts.Skip = <<>> /\ opts.Only = <<>>) => applicable # <<>>

\* C19: every result is counted in exactly one of skipped, failed and
\* succeeded (skipped first), the three add up to the total, which is the
\* length of the filtered list, and with-output counts exactly the
\* successes whose trimmed output is not empty.
TallyPartitions ==
    mainPc = "printed" =>
        LET tally == printed[1].tally
            all == 1..Len(results)
            skippedOnes == {i \in all : Result(i).Skipped}
            failedOnes == {i \in all \ skippedOnes : Result(i).Error # NoError}
            succeeded == all \ (skippedOnes \cup failedOnes)
        IN  /\ tally.skipped = Cardinality(skippedOnes)
            /\ tally.failed = Cardinality(failedOnes)
            /\ tally.success = Cardinality(succeeded)
            /\ tally.total = tally.success + tally.failed + tally.skipped
            /\ tally.total = Len(applicable)
            /\ tally.withOutput <= tally.success
            /\ tally.withOutput =
                   Cardinality({i \in succeeded : TrimSpace(Result(i).Output) # <<>>})

TallyPartitionsWitness ==
    /\ mainPc = "printed"
    /\ printed[1].tally.skipped = 1
    /\ printed[1].tally.failed = 1
    /\ printed[1].tally.success = 2
    /\ printed[1].tally.withOutput = 1

\* position of a section in the order general, image, audio, text
SectionRank(cat) ==
    CASE cat = "general" -> 1
      [] cat = "image" -> 2
      [] cat = "audio" -> 3
      [] cat = "text" -> 4
      [] OTHER -> 0

\* C20: PrintResults writes one block for every result and no other block,
\* each under the header of its category, the headers in the order general,
\* image, audio, text and only for categories that have a result, the blocks
\* of a section in filtered-list order; and it leaves the ScanResult as it was.
RenderedOnceInOrder ==
    [][(mainPc = "returned" /\ mainPc' = "printed") =>
        LET lines == printed'[1].lines
            blocks == {k \in 1..Len(lines) : lines[k][1] = "result"}
            headers == {k \in 1..Len(lines) : lines[k][1] = "header"}
            HeaderOf(k) == CHOOSE h \in headers :
                               h < k /\ \A g \in headers : g < k => g <= h
            IndexOf(k) == CHOOSE i \in 1..Len(results) : Result(i) = lines[k][2]
        IN  /\ results' = results /\ applicable' = applicable /\ fileInfo' = fileInfo
            /\ \A i \in 1..Len(results) :
                   Cardinality({k \in blocks : lines[k][2] = Result(i)}) = 1
            /\ Cardinality(blocks) = Len(results)
            /\ \A k \in blocks :
                   /\ \E h \in headers : h < k
                   /\ lines[HeaderOf(k)][2] = lines[k][2].Category
            /\ \A h \in headers :
                   /\ SectionRank(lines[h][2]) > 0
                   /\ h + 1 \in blocks
                   /\ \A g \in headers :
                          g < h => SectionRank(lines[g][2]) < SectionRank(lines[h][2])
            /\ \A j, k \in blocks :
                   (j < k /\ lines[j][2].Category = lines[k][2].Category) =>
                       IndexOf(j) < IndexOf(k)]_vars

RenderedOnceInOrderWitness ==
    /\ mainPc = "printed"
    /\ Len(results) = 4
    /\ Result(1).Category = "general"
    /\ Result(2).Category = "general"
    /\ Result(4).Category = "text"
    /\ Len(printed[1].lines) = 7

\* the registry tools a documented identifier stands for: the tool of that
\* name, or the tools that run the binary of that name
DocumentedAs(id) ==
    {k \in 1..Len(GetAllTools) : GetAllTools[k].Name = id \/ GetAllTools[k].Binary = id}

\* C21: every identifier of the README's tool table selects its tool: when
\* the include list names it and the file has one of its formats, a tool it
\* stands for is in the filtered list; when the exclude list names it, none is.
ReadmeNamesSelect ==
    mainPc = "filtered" =>
        \A r \in 1..Len(ReadmeTools) :
            /\ (/\ NamedIn(opts.Only, ReadmeTools[r].id)
                /\ fileInfo.Category \in ReadmeTools[r].formats) =>
                   \E i \in 1..Len(applicable), k \in DocumentedAs(ReadmeTools[r].id) :
                       applicable[i] = GetAllTools[k]
            /\ NamedIn(opts.Skip, ReadmeTools[r].id) =>
                   \A i \in 1..Len(applicable), k \in DocumentedAs(ReadmeTools[r].id) :
                       applicable[i] # GetAllTools[k]

\* C22: every change of the result slice writes exactly one slot, the slot
\* was nil until then, the writer is the task of that index taking its last
\* step, and RunAll is still waiting at the barrier with that task counted.
SlotWrittenOnceByOwner ==
    [][mainPc # "call" /\ results' # results =>
          /\ mainPc = "running" /\ mainPc' = "running"
          /\ wg > 0 /\ wg' = wg - 1
          /\ DOMAIN results' = DOMAIN results
          /\ \E i \in Tasks :
                 /\ results[i] = <<>>
                 /\ Len(results'[i]) = 1
                 /\ pc[i] # "done" /\ pc'[i] = "done"
                 /\ results'[i][1].ToolName = applicable[i].Name
                 /\ \A j \in Tasks \ {i} :
                        results'[j] = results[j] /\ pc'[j] = pc[j]]_vars

\* C22 witness: RunAll returned after two tools ran at the same time, the
\* second finishing with status 1 and the first with status 0, each result
\* in its own slot.
SlotWrittenOnceByOwnerWitness ==
    /\ mainPc = "returned"
    /\ Len(applicable) = 2
    /\ proc[1] = "exit0" /\ proc[2] = "exit1"
    /\ results[1] # <<>> /\ results[2] # <<>>
    /\ Result(1).ToolName = applicable[1].Name
    /\ Result(2).ToolName = applicable[2].Name

\* task i is inside ensureRockyou, past the os.Stat that found no wordlist
Downloading(i) == pc[i] \in {"httpget", "copy"}

\* C23: the wordlist is never a resource two tasks work on at once: no two
\* tasks are downloading it at the same time, and no task has built its
\* command on the wordlist while the file is still being written.
WordlistNotShared ==
    /\ \A i, j \in Tasks : i # j => ~(Downloading(i) /\ Downloading(j))
    /\ \A i \in Tasks : pc[i] \in {"start", "wait"} => rockyou # "partial"

\* C24: the deadline RunAll applies is opts.Timeout when that is positive
\* and the 60 s default when it is zero or negative, and a task reports a
\* timeout only for a subprocess that was started.
NonPositiveTimeoutDefaults ==
    mainPc \in {"running", "returned"} =>
        /\ timeout = (IF opts.Timeout > 0 THEN opts.Timeout ELSE DefaultTimeout)
        /\ \A i \in Tasks :
               results[i] # <<>> /\ Result(i).Error.kind = "timeout" => i \in spawned

\* the header holds the given bytes at the offset, all of them within it
Matches(header, offset, bytes) ==
    Len(header) >= offset + Len(bytes) /\ HasBytes(header, offset, bytes)

\* the reference classification: the first signature that matches in the
\* stated order, else the extension's category, else unknown
ReferenceCategory(ext, header) ==
    IF Matches(header, 0, SigPNG) THEN CategoryPNG
    ELSE IF Matches(header, 0, SigJPEG) THEN CategoryJPG
    ELSE IF Matches(header, 0, SigBMP) THEN CategoryBMP
    ELSE IF Matches(header, 0, SigGIF) THEN CategoryGIF
    ELSE IF Matches(header, 0, SigTIFFLittle) \/ Matches(header, 0, SigTIFFBig)
         THEN CategoryTIFF
    ELSE IF Matches(header, 0, SigRIFF) /\ Matches(header, FormOffset, FormWAVE)
         THEN CategoryWAV
    ELSE IF Matches(header, 0, SigRIFF) /\ Matches(header, FormOffset, FormWEBP)
         THEN CategoryWEBP
    ELSE IF Matches(header, 0, SigFLAC) THEN CategoryFLAC
    ELSE IF Matches(header, 0, SigOGG) THEN CategoryOGG
    ELSE IF \/ Len(header) >= 2 /\ header[1] = FrameSync /\ HasSyncBits(header[2])
            \/ Matches(header, 0, SigID3)
         THEN CategoryMP3
    ELSE IF Matches(header, 0, SigAU) THEN CategoryAU
    ELSE CategoryOfExt(ext)

\* C25: the category Detect assigns is the reference classification of the
\* header read and the lower-cased extension, and a RIFF header of form WAVE
\* is wav and counts as audio.
CategoryIsReference ==
    mainPc = "classified" =>
        LET header == Prefix(target.content, HeaderSize)
        IN  /\ fileInfo.Category = ReferenceCategory(ToLower(target.ext), header)
            /\ (Matches(header, 0, SigRIFF) /\ Matches(header, FormOffset, FormWAVE)) =>
                   fileInfo.Category = CategoryWAV /\ IsAudio(fileInfo)

\* C26: Detect returns a FileInfo and no error for every readable regular
\* file whatever its length, the empty file included; the category then
\* comes from the bytes there are and from the extension.
EveryRegularFileClassified ==
    mainPc # "detect" /\ target.kind = "regular" =>
        /\ detectErr = ""
        /\ mainPc = "classified"
        /\ fileInfo # NilFileInfo
        /\ (target.content = <<>> =>
                fileInfo.Category = CategoryOfExt(ToLower(target.ext)))

\* the catalog entries whose binary is the given one
DepsOf(binary) == {d \in 1..Len(AllTools) : AllTools[d].Binary = binary}

\* the binary or a declared alternate binary of a catalog entry resolves
Resolves(dep) ==
    \/ dep.Binary \in path
    \/ \E a \in 1..Len(dep.AltBinaries) : dep.AltBinaries[a] \in path

\* task i recorded the skip of a tool that is not installed
SkippedAsMissing(i) ==
    Result(i).Skipped /\ Result(i).SkipReason = NotInstalled(applicable[i].Binary)

\* C27: every registry binary has a catalog entry, and once the scan command
\* has dispatched, a recorded result is the not-installed skip exactly when
\* neither the binary nor a declared alternate of the tool's catalog entry
\* resolves, which is exactly when the notice named that entry.
AvailabilityAgrees ==
    /\ \A k \in 1..Len(GetAllTools) : DepsOf(GetAllTools[k].Binary) # {}
    /\ mainPc \in {"running", "returned", "printed"} =>
           \A i \in Tasks :
               results[i] # <<>> =>
                   \A d \in DepsOf(applicable[i].Binary) :
                       /\ SkippedAsMissing(i) <=> ~Resolves(AllTools[d])
                       /\ SkippedAsMissing(i) <=> AllTools[d].Name \in missing

\* C27 witness: the scan returned; foremost was named in the notice and
\* skipped as not installed, the hex dump tool's xxd was not named and the
\* tool was run.
AvailabilityAgreesWitness ==
    /\ mainPc = "returned"
    /\ Len(applicable) = 2
    /\ "xxd" \notin missing /\ ~Result(1).Skipped /\ 1 \in spawned
    /\ "foremost" \in missing /\ SkippedAsMissing(2)

\* C28: the result of a started subprocess carries the timeout error only
\* if the subprocess was still running when its deadline expired; one that
\* exited on its own before the deadline is never recorded as a timeout.
TimeoutOnlyWhenExpiredRunning ==
    \A i \in Tasks :
        results[i] # <<>> /\ i \in spawned =>
            /\ Result(i).Error.kind = "timeout" => ExpiredWhileRunning(i)
            /\ proc[i] \in {"exit0", "exit1"} => Result(i).Error.kind # "timeout"

\* what bash -c or python3 -c reads as code in a script: the pieces outside
\* single-quoted literals, each literal standing as "STR"; a literal the
\* script's end leaves open stands as "UNTERMINATED".  In both languages a
\* single-quoted literal runs to the next quote not escaped, and no escape
\* character is among the pieces.
RECURSIVE CodeFrom(_, _, _)
CodeFrom(script, k, quoted) ==
    IF k > Len(script) THEN (IF quoted THEN <<"UNTERMINATED">> ELSE <<>>)
    ELSE IF script[k] = "'"
         THEN (IF quoted THEN <<>> ELSE <<"STR">>) \o CodeFrom(script, k + 1, ~quoted)
         ELSE (IF quoted THEN <<>> ELSE <<script[k]>>) \o CodeFrom(script, k + 1, quoted)

CodeOf(script) == CodeFrom(script, 1, FALSE)

\* C29: the program a built command runs and the code of the script it is
\* given are those the descriptor fixes, the same for every path as for a
\* path of one ordinary letter: the path only fills string literals.
PathIsOnlyData ==
    mainPc = "built" =>
        LET fixed == BuildCmd(applicable[1], PlainPath)
        IN  /\ Len(cmd) = Len(fixed)
            /\ cmd[1] = fixed[1]
            /\ cmd[2] = fixed[2]
            /\ CodeOf(cmd[3]) = CodeOf(fixed[3])

====
